---------------------------- MODULE Spec2Model ----------------------------
(***************************************************************************)
(* PC <-> MCU serial protocol (protocol_c): frame layer (frame.c/frame.h)  *)
(* and data layer (data.c/data.h, protocol_defs.h).                        *)
(*                                                                         *)
(*   Frame: AA | LEN | VER | SEQ | CHK | DATA... | 55                      *)
(*   DATA : MSG | VER | TLV...      TLV: T | L | V (L bytes)               *)
(*                                                                         *)
(* Bytes are naturals in 0..255.  A C buffer is a sequence; C index i is   *)
(* sequence index i+1.  A pointer argument is a record or flag that says   *)
(* whether it is NULL.                                                     *)
(***************************************************************************)
EXTENDS Integers, Sequences, FiniteSets, TLC

VARIABLES
    bld,      \* frame layer: last pcmcu_build_frame call (arguments and results)
    wire,     \* frame layer: the bytes handed to pcmcu_parse_frame_data
    prs,      \* frame layer: last pcmcu_parse_frame_data call (arguments and results)
    scen,     \* stream layer: the byte stream the transport will deliver
    fs,       \* stream layer: pcmcu_stream_t (buf[0..len-1] as a sequence)
    fed,      \* stream layer: number of stream bytes delivered so far
    frc,      \* stream layer: result of the last pcmcu_stream_feed call
    emitted,  \* stream layer: visitor invocations so far (frame bytes, stream position)
    buf,      \* data layer: the caller's output buffer (cap cells)
    w,        \* data layer: the caller's write offset (size_t)
    put,      \* data layer: last data_begin / data_put_* call (arguments and results)
    oob,      \* data layer: C indexes >= cap that a put has written to
    rx,       \* data layer: the DATA bytes handed to data_decode
    dec       \* data layer: last data_decode call (arguments and results)

vars == <<bld, wire, prs, scen, fs, fed, frc, emitted, buf, w, put, oob, rx, dec>>
frameVars == <<bld, wire, prs>>
streamVars == <<scen, fs, fed, frc, emitted>>
dataVars == <<buf, w, put, oob, rx, dec>>

(***************************************************************************)
(* Bounds of the model.                                                    *)
(***************************************************************************)
MaxLen == 3        \* longest payload enumerated byte by byte
MaxRawLen == 7     \* longest arbitrary byte string handed to the parser
MaxGarbage == 2    \* longest run of garbage bytes before a frame in a stream
MaxPuts == 2       \* most data_put_* calls made on one buffer
MaxTlvLen == 6     \* longest arbitrary TLV byte range handed to the decoder
BufCap == 8        \* capacity of the caller's DATA buffer
SizeBits == 16     \* width of size_t (the least C allows; builds have 32 or 64)

(***************************************************************************)
(* frame.c: constants and status codes.                                    *)
(***************************************************************************)
FRAME_HEAD == 170
FRAME_TAIL == 85
MAX_DATA_LEN == 252

PCMCU_OK == 0
PCMCU_EINVAL == -1
PCMCU_EDATA_TOO_LONG == -2
PCMCU_EBUFSZ == -3
PCMCU_EFRAME_TOO_SHORT == -4
PCMCU_EHEAD_TAIL == -5
PCMCU_ELEN_INVALID == -6
PCMCU_ELEN_MISMATCH == -7
PCMCU_ECHECKSUM == -8

\* An output parameter: <<>> while the callee has not written it, <<v>> after.
Unset == <<>>
Out(v) == <<v>>

\* Sequences over S of length 0..n.
SeqsUpTo(S, n) == UNION {[1..k -> S] : k \in 0..n}

\* s[a..b] with C-style bounds (a, b are sequence indexes).
Slice(s, a, b) == SubSeq(s, a, b)

\* A pointer to bytes: NULL, or the bytes it points at.
NullPtr == [null |-> TRUE, bytes |-> <<>>]
Ptr(bytes) == [null |-> FALSE, bytes |-> bytes]

(***************************************************************************)
(* frame.c helpers.                                                        *)
(***************************************************************************)
u8_clip(x) == x % 256

\* bytes[lo] + ... + bytes[hi], summed by halves to keep the evaluation shallow.
RECURSIVE SumRange(_, _, _)
SumRange(bytes, lo, hi) ==
    IF lo > hi THEN 0
    ELSE IF lo = hi THEN bytes[lo]
    ELSE LET mid == (lo + hi) \div 2
         IN  SumRange(bytes, lo, mid) + SumRange(bytes, mid + 1, hi)

\* uint32_t accumulator: len <= 255 keeps the sum below 2^32, so it never wraps.
sum_bytes(data, len) ==
    IF ~data.null /\ len # 0 THEN SumRange(data.bytes, 1, len) ELSE 0

\* Mutant of checksum: SEQ left out of the sum.
checksum_without_seq(len_byte, ver, seq, data, data_len) ==
    u8_clip(len_byte + ver + sum_bytes(data, data_len))

checksum(len_byte, ver, seq, data, data_len) ==
    u8_clip(len_byte + ver + seq + sum_bytes(data, data_len))

\* Mutant of frame_size_for: one byte too many.
frame_size_for_plus_one(data_len) == data_len + 7

frame_size_for(data_len) == data_len + 6

(***************************************************************************)
(* pcmcu_build_frame.  a: [seq, ver, data, data_len, out_buf_null,         *)
(* out_buf_size].  The result holds rc, the bytes written to out_buf from  *)
(* index 0 (out) and *out_frame_len (the caller passes a non-null          *)
(* out_frame_len).                                                         *)
(***************************************************************************)
pcmcu_build_frame(a) ==
    LET length == (3 + (a.data_len % 256)) % 256
        total == frame_size_for(a.data_len)
        chk == checksum(length, a.ver, a.seq, a.data, a.data_len)
        hdr == <<FRAME_HEAD, length, a.ver, a.seq, chk>>
        body == IF a.data_len # 0 /\ ~a.data.null
                THEN Slice(a.data.bytes, 1, a.data_len) ELSE <<>>
        out == hdr \o body \o <<FRAME_TAIL>>
    IN  IF a.out_buf_null
        THEN [rc |-> PCMCU_EINVAL, out |-> <<>>, out_frame_len |-> Unset]
        ELSE IF a.data_len > MAX_DATA_LEN
        THEN [rc |-> PCMCU_EDATA_TOO_LONG, out |-> <<>>, out_frame_len |-> Unset]
        ELSE IF a.out_buf_size < total
        THEN [rc |-> PCMCU_EBUFSZ, out |-> <<>>, out_frame_len |-> Unset]
        ELSE [rc |-> PCMCU_OK, out |-> out, out_frame_len |-> Out(Len(out))]

(***************************************************************************)
(* pcmcu_parse_frame_data.  frame: the frame_len bytes at the frame        *)
(* pointer.  p: [frame_null, out_data_null, out_data_cap, out_len_null,    *)
(* out_ver_null, out_seq_null].  Outputs not written stay Unset; out_data  *)
(* holds the bytes copied, <<>> when nothing was copied.                   *)
(***************************************************************************)
ParseFail(rc) ==
    [rc |-> rc, out_ver |-> Unset, out_seq |-> Unset,
     out_data_len |-> Unset, out_data |-> <<>>]

\* The checksum the parser recomputes over LEN, VER, SEQ and DATA of the frame.
parse_chk_calc(frame) ==
    checksum(frame[2], frame[3], frame[4],
             Ptr(Slice(frame, 6, 5 + (frame[2] - 3))), frame[2] - 3)

\* Mutant of parse_validate: the length field is looked at before head and tail.
parse_validate_length_first(frame, frame_len) ==
    IF frame_len < 6 THEN PCMCU_EFRAME_TOO_SHORT
    ELSE IF frame[2] < 3 THEN PCMCU_ELEN_INVALID
    ELSE IF frame[1] # FRAME_HEAD \/ frame[frame_len] # FRAME_TAIL
    THEN PCMCU_EHEAD_TAIL
    ELSE IF frame_len # frame[2] + 3 THEN PCMCU_ELEN_MISMATCH
    ELSE IF frame[5] # parse_chk_calc(frame) THEN PCMCU_ECHECKSUM
    ELSE PCMCU_OK

\* The checks of pcmcu_parse_frame_data on a non-null frame, in the code's order.
parse_validate(frame, frame_len) ==
    IF frame_len < 6 THEN PCMCU_EFRAME_TOO_SHORT
    ELSE IF frame[1] # FRAME_HEAD \/ frame[frame_len] # FRAME_TAIL
    THEN PCMCU_EHEAD_TAIL
    ELSE IF frame[2] < 3 THEN PCMCU_ELEN_INVALID
    ELSE IF frame_len # frame[2] + 3 THEN PCMCU_ELEN_MISMATCH
    ELSE IF frame[5] # parse_chk_calc(frame) THEN PCMCU_ECHECKSUM
    ELSE PCMCU_OK

pcmcu_parse_frame_data(frame, frame_len, p) ==
    IF p.frame_null THEN ParseFail(PCMCU_EINVAL)
    ELSE LET v == parse_validate(frame, frame_len) IN
    IF v # PCMCU_OK THEN ParseFail(v)
    ELSE LET data_len == frame[2] - 3
             hdr == [out_ver |-> IF p.out_ver_null THEN Unset ELSE Out(frame[3]),
                     out_seq |-> IF p.out_seq_null THEN Unset ELSE Out(frame[4]),
                     out_data_len |-> IF p.out_len_null THEN Unset ELSE Out(data_len)]
         IN
    IF ~p.out_data_null /\ p.out_data_cap < data_len
    THEN [rc |-> PCMCU_EBUFSZ, out_ver |-> hdr.out_ver, out_seq |-> hdr.out_seq,
          out_data_len |-> hdr.out_data_len, out_data |-> <<>>]
    ELSE [rc |-> PCMCU_OK, out_ver |-> hdr.out_ver, out_seq |-> hdr.out_seq,
          out_data_len |-> hdr.out_data_len,
          out_data |-> IF p.out_data_null THEN <<>> ELSE Slice(frame, 6, 5 + data_len)]

(***************************************************************************)
(* Frame layer: a caller builds a frame, the link carries it (possibly     *)
(* with one bit flipped), the receiver parses what arrived.                *)
(***************************************************************************)
SeqVals == {1, 255}
VerVals == {0, 175}
PayloadBytes == {0, 170, 255}

\* Arguments of pcmcu_build_frame the model enumerates.
ShortBuilds ==
    {[seq |-> s, ver |-> v, data |-> Ptr(d), data_len |-> Len(d),
      out_buf_null |-> FALSE, out_buf_size |-> Len(d) + 6 - short] :
        s \in SeqVals, v \in VerVals, d \in SeqsUpTo(PayloadBytes, MaxLen),
        short \in {0, 1}}

LongBuilds ==
    {[seq |-> 255, ver |-> 175, data |-> Ptr([i \in 1..n |-> 255]), data_len |-> n,
      out_buf_null |-> FALSE, out_buf_size |-> n + 6] :
        n \in {MAX_DATA_LEN, MAX_DATA_LEN + 1}}

NullDataBuilds ==
    {[seq |-> s, ver |-> v, data |-> NullPtr, data_len |-> n,
      out_buf_null |-> FALSE, out_buf_size |-> n + 6] :
        s \in SeqVals, v \in VerVals, n \in 0..(MaxLen + 1)}

NoBufBuilds ==
    {[seq |-> 1, ver |-> 0, data |-> NullPtr, data_len |-> 0,
      out_buf_null |-> TRUE, out_buf_size |-> 0]}

BuildArgs == ShortBuilds \cup LongBuilds \cup NullDataBuilds \cup NoBufBuilds

\* Arguments of pcmcu_parse_frame_data the model enumerates.
ParseArgs ==
    {[frame_null |-> FALSE, out_data_null |-> dn, out_data_cap |-> cap,
      out_len_null |-> hn, out_ver_null |-> hn, out_seq_null |-> hn] :
        dn \in BOOLEAN, cap \in {0, MAX_DATA_LEN}, hn \in BOOLEAN}
    \ {[frame_null |-> FALSE, out_data_null |-> TRUE, out_data_cap |-> MAX_DATA_LEN,
        out_len_null |-> hn, out_ver_null |-> hn, out_seq_null |-> hn] :
        hn \in BOOLEAN}

NullFrameArgs ==
    [frame_null |-> TRUE, out_data_null |-> FALSE, out_data_cap |-> MAX_DATA_LEN,
     out_len_null |-> FALSE, out_ver_null |-> FALSE, out_seq_null |-> FALSE]

NoBuild == [called |-> FALSE, a |-> CHOOSE a \in NoBufBuilds : TRUE,
            r |-> [rc |-> PCMCU_OK, out |-> <<>>, out_frame_len |-> Unset]]
NoWire == [src |-> "none", bytes |-> <<>>, flips |-> <<>>]
NoParse == [called |-> FALSE, p |-> NullFrameArgs, r |-> ParseFail(PCMCU_OK)]

\* b with bit k (0..7) inverted.
FlipBitOf(b, k) == IF (b \div (2 ^ k)) % 2 = 1 THEN b - 2 ^ k ELSE b + 2 ^ k

BuildFrame ==
    /\ ~bld.called
    /\ \E a \in BuildArgs :
         bld' = [called |-> TRUE, a |-> a, r |-> pcmcu_build_frame(a)]
    /\ UNCHANGED <<wire, prs, streamVars, dataVars>>

\* The frame_len bytes of a successfully built frame go on the link.
Transmit ==
    /\ bld.called /\ bld.r.rc = PCMCU_OK
    /\ wire.src = "none"
    /\ wire' = [src |-> "built", bytes |-> bld.r.out, flips |-> <<>>]
    /\ UNCHANGED <<bld, prs, streamVars, dataVars>>

\* Link noise: one bit of one byte (C index i) of the frame in flight is inverted.
FlipBit ==
    /\ wire.src = "built" /\ wire.flips = <<>> /\ ~prs.called
    /\ \E i \in 0..(Len(wire.bytes) - 1), k \in 0..7 :
         wire' = [wire EXCEPT !.bytes[i + 1] = FlipBitOf(@, k),
                              !.flips = <<[idx |-> i, bit |-> k]>>]
    /\ UNCHANGED <<bld, prs, streamVars, dataVars>>

\* Arbitrary bytes arrive from the link.
RawBytes == {2, 3, 85, 170}
RawFrames == SeqsUpTo(RawBytes, MaxRawLen)

Receive ==
    /\ wire.src = "none"
    /\ \E bytes \in RawFrames :
         wire' = [src |-> "raw", bytes |-> bytes, flips |-> <<>>]
    /\ UNCHANGED <<bld, prs, streamVars, dataVars>>

ParseFrame ==
    /\ wire.src # "none" /\ ~prs.called
    /\ \E p \in ParseArgs \cup {NullFrameArgs} :
         prs' = [called |-> TRUE, p |-> p,
                 r |-> pcmcu_parse_frame_data(wire.bytes, Len(wire.bytes), p)]
    /\ UNCHANGED <<bld, wire, streamVars, dataVars>>

(***************************************************************************)
(* Stream layer: pcmcu_stream_t and pcmcu_stream_feed (declared in         *)
(* frame.h; the body follows the StreamReassembler design, section 4.4).   *)
(***************************************************************************)
PCMCU_STREAM_MAX_BUF == 512
PCMCU_MIN_FRAME_TOTAL == 6
PCMCU_MAX_FRAME_TOTAL == 258

\* The value an aborting visitor returns.
VisitorAbort == 7

\* Return value of the k-th visitor invocation (k counts from 1 over the run).
on_frame(onf, k) == IF onf = "abort_first" /\ k = 1 THEN VisitorAbort ELSE 0

\* Mutant of stream_ingest: the chunk replaces what was buffered.
stream_ingest_forgets(b, chunk) == chunk

\* Step 1, ingest: append the chunk, evicting the oldest bytes on overflow.
stream_ingest(b, chunk) ==
    IF Len(chunk) >= PCMCU_STREAM_MAX_BUF
    THEN Slice(chunk, Len(chunk) - PCMCU_STREAM_MAX_BUF + 1, Len(chunk))
    ELSE IF Len(b) + Len(chunk) > PCMCU_STREAM_MAX_BUF
    THEN Slice(b, Len(b) + Len(chunk) - PCMCU_STREAM_MAX_BUF + 1, Len(b)) \o chunk
    ELSE b \o chunk

\* Mutant of stream_resync: everything is dropped when the first byte is no head.
stream_resync_drop_all(b) ==
    IF b # <<>> /\ b[1] # FRAME_HEAD THEN <<>> ELSE b

\* Step 2b: drop every byte before the first head marker (all of them if none).
stream_resync(b) ==
    IF b # <<>> /\ b[1] = FRAME_HEAD THEN b
    ELSE IF \E i \in 1..Len(b) : b[i] = FRAME_HEAD
    THEN LET h == CHOOSE i \in 1..Len(b) :
                    b[i] = FRAME_HEAD /\ \A j \in 1..(i - 1) : b[j] # FRAME_HEAD
         IN  Slice(b, h, Len(b))
    ELSE <<>>

\* Step 2h: remove the candidate's total bytes from the front of the buffer.
stream_consume(b, total) == Slice(b, total + 1, Len(b))

\* Step 2, the extraction loop.  b: the buffer; out: the frames handed to the
\* visitor in this call; onf: the visitor; k: its invocations before this call.
RECURSIVE stream_extract(_, _, _, _)
stream_extract(b0, out, onf, k) ==
    IF b0 = <<>> THEN [buf |-> b0, frames |-> out, rc |-> 0]
    ELSE LET b == stream_resync(b0) IN
    IF Len(b) < 2 THEN [buf |-> b, frames |-> out, rc |-> 0]
    ELSE LET length == b[2]
             total == length + 3
         IN
    IF length < 3 THEN stream_extract(Tail(b), out, onf, k)
    ELSE IF total < PCMCU_MIN_FRAME_TOTAL \/ total > PCMCU_MAX_FRAME_TOTAL
    THEN stream_extract(Tail(b), out, onf, k)
    ELSE IF Len(b) < total THEN [buf |-> b, frames |-> out, rc |-> 0]
    ELSE IF b[total] # FRAME_TAIL THEN stream_extract(Tail(b), out, onf, k)
    ELSE LET frame == Slice(b, 1, total)
             rest == stream_consume(b, total)
         IN
    IF onf = "null" THEN stream_extract(rest, out, onf, k)
    ELSE LET rc == on_frame(onf, k + Len(out) + 1) IN
    IF rc # 0 THEN [buf |-> rest, frames |-> Append(out, frame), rc |-> rc]
    ELSE stream_extract(rest, Append(out, frame), onf, k)

pcmcu_stream_feed(b, chunk, onf, k) ==
    stream_extract(stream_ingest(b, chunk), <<>>, onf, k)

(***************************************************************************)
(* A transport delivers a stream garbage_1 + frame_1 + garbage_2 + frame_2 *)
(* (frame_2 may be absent) in chunks of any size.                          *)
(***************************************************************************)
GarbageBytes == {5, 170}
Garbage == SeqsUpTo(GarbageBytes, MaxGarbage) \cup {<<170, 2>>}

\* Valid frames: what pcmcu_build_frame produces for these payloads.
StreamFrame(seq, d) ==
    pcmcu_build_frame([seq |-> seq, ver |-> 0, data |-> Ptr(d), data_len |-> Len(d),
                       out_buf_null |-> FALSE, out_buf_size |-> Len(d) + 6]).out
FirstFrames == {StreamFrame(1, d) : d \in {<<>>, <<85>>, <<170, 3>>}}
SecondFrames == {<<>>} \cup {StreamFrame(2, d) : d \in {<<170>>}}
Visitors == {"never_aborts", "abort_first", "null"}

Scenarios ==
    {[open |-> TRUE, g1 |-> g1, f1 |-> f1, g2 |-> g2, f2 |-> f2, onf |-> onf] :
        g1 \in Garbage, f1 \in FirstFrames, g2 \in Garbage, f2 \in SecondFrames,
        onf \in Visitors}

NoScen == [open |-> FALSE, g1 |-> <<>>, f1 |-> <<>>, g2 |-> <<>>, f2 |-> <<>>,
           onf |-> "null"]
NoFeed == [rc |-> 0, split |-> FALSE]

Stream == scen.g1 \o scen.f1 \o scen.g2 \o scen.f2

\* pcmcu_stream_init, and the transport picks what it will deliver.
StreamInit ==
    /\ ~scen.open
    /\ \E sc \in Scenarios : scen' = sc
    /\ fs' = <<>>
    /\ UNCHANGED <<fed, frc, emitted, frameVars, dataVars>>

\* One pcmcu_stream_feed call with the next n bytes of the stream.
StreamFeed ==
    /\ scen.open /\ fed < Len(Stream)
    /\ \E n \in 1..(Len(Stream) - fed) :
         LET chunk == Slice(Stream, fed + 1, fed + n)
             r == pcmcu_stream_feed(fs, chunk, scen.onf, Len(emitted))
         IN  /\ fs' = r.buf
             /\ fed' = fed + n
             /\ frc' = [rc |-> r.rc, split |-> fed > 0]
             /\ emitted' = emitted \o
                    [i \in 1..Len(r.frames) |-> [frame |-> r.frames[i], at |-> fed + n]]
    /\ UNCHANGED <<scen, frameVars, dataVars>>

(***************************************************************************)
(* Data layer: data.c, data.h, protocol_defs.h.                            *)
(***************************************************************************)
DATA_OK == 0
DATA_EINVAL == -1
DATA_EBUFSZ == -2
DATA_EFMT == -3
DATA_ESIZE == -4

MSG_PC_TO_MCU == 1
PROTOCOL_DATA_VER == 175
VAR_TEST_VAR_F32 == 93
VAR_TEST_VAR_U8 == 103
VAR_TEST_VAR_U16 == 230

VAR_SIZE_TABLE(t) ==
    IF t = VAR_TEST_VAR_F32 THEN 4
    ELSE IF t = VAR_TEST_VAR_U8 THEN 1
    ELSE IF t = VAR_TEST_VAR_U16 THEN 2
    ELSE 0

\* size_t arithmetic wraps; (size_t)-1 is the failure value of the put functions.
SizeT(x) == x % (2 ^ SizeBits)
SIZE_MAX == 2 ^ SizeBits - 1

\* A buffer cell nobody has written yet (indeterminate value).
Indet == -1

\* buf[i] = val for a buffer of cap cells.  An index >= cap is outside the
\* buffer: the write lands in memory the buffer does not own and is recorded.
StoreAt(st, cap, i, val) ==
    IF i < cap THEN [st EXCEPT !.buf[i + 1] = val]
    ELSE [st EXCEPT !.oob = @ \cup {i}]

\* memcpy(&buf[i], v, l), byte by byte.
RECURSIVE CopyAt(_, _, _, _, _)
CopyAt(st, cap, i, bytes, n) ==
    IF n = 0 THEN st
    ELSE StoreAt(CopyAt(st, cap, i, bytes, n - 1), cap, SizeT(i + n - 1), bytes[n])

\* data_put_tlv on a non-null buffer b of cap cells.  The result holds the
\* buffer afterwards, the out-of-buffer indexes written and the return value.
data_put_tlv(b, cap, w0, t, v, l) ==
    IF SizeT(w0 + 2 + l) > cap
    THEN [buf |-> b, oob |-> {}, ret |-> SIZE_MAX]
    ELSE LET s1 == StoreAt([buf |-> b, oob |-> {}], cap, w0, t)
             s2 == StoreAt(s1, cap, SizeT(w0 + 1), l)
             w2 == SizeT(w0 + 2)
         IN  IF l # 0 /\ ~v.null
             THEN LET s3 == CopyAt(s2, cap, w2, v.bytes, l)
                  IN  [buf |-> s3.buf, oob |-> s3.oob, ret |-> SizeT(w2 + l)]
             ELSE [buf |-> s2.buf, oob |-> s2.oob, ret |-> w2]

\* Mutant of data_put_var: the record is written before the width is checked.
data_put_var_checks_after(b, cap, w0, t, v, l) ==
    LET expect == VAR_SIZE_TABLE(t)
        r == data_put_tlv(b, cap, w0, t, v, l)
    IN  IF expect # 0 /\ l # expect
        THEN [buf |-> r.buf, oob |-> r.oob, ret |-> SIZE_MAX, err |-> DATA_ESIZE]
        ELSE [buf |-> r.buf, oob |-> r.oob, ret |-> r.ret,
              err |-> IF r.ret = SIZE_MAX THEN DATA_EBUFSZ ELSE DATA_OK]

\* data_put_var on a non-null buffer, with a non-null err.
data_put_var(b, cap, w0, t, v, l) ==
    LET expect == VAR_SIZE_TABLE(t) IN
    IF expect # 0 /\ l # expect
    THEN [buf |-> b, oob |-> {}, ret |-> SIZE_MAX, err |-> DATA_ESIZE]
    ELSE LET r == data_put_tlv(b, cap, w0, t, v, l)
         IN  [buf |-> r.buf, oob |-> r.oob, ret |-> r.ret,
              err |-> IF r.ret = SIZE_MAX THEN DATA_EBUFSZ ELSE DATA_OK]

\* data_begin on a non-null buffer.
data_begin(msg, ver, b, cap) ==
    IF cap < 2 THEN [rc |-> DATA_EBUFSZ, buf |-> b, out_w |-> Unset]
    ELSE [rc |-> DATA_OK, buf |-> [b EXCEPT ![1] = msg, ![2] = ver], out_w |-> Out(2)]

\* data_validate_tlvs, from C index i on.
RECURSIVE validate_from(_, _, _)
validate_from(tlv, tlv_len, i) ==
    IF ~(i < tlv_len) THEN DATA_OK
    ELSE IF i + 2 > tlv_len THEN DATA_EFMT
    ELSE IF i + 2 + tlv[i + 2] > tlv_len THEN DATA_EFMT
    ELSE validate_from(tlv, tlv_len, i + 2 + tlv[i + 2])

data_validate_tlvs(tlv, tlv_len) == validate_from(tlv, tlv_len, 0)

\* The visitor on_tlv: its return value for one record.
on_tlv(vis, t, v, l) == IF vis = "stops_on_tag_1" /\ t = 1 THEN VisitorAbort ELSE 0

\* Mutant of decode_walk: the visitor sees a record before its width is checked.
RECURSIVE decode_walk_visit_first(_, _, _, _, _)
decode_walk_visit_first(p, remain, i, vis, seen) ==
    IF ~(i < remain) THEN [rc |-> DATA_OK, visited |-> seen]
    ELSE LET t == p[i + 1]
             l == p[i + 2]
             v == Slice(p, i + 3, i + 2 + l)
             expect == VAR_SIZE_TABLE(t)
             seen1 == IF vis = "null" THEN seen
                      ELSE Append(seen, [t |-> t, v |-> v, l |-> l])
         IN
    IF vis # "null" /\ on_tlv(vis, t, v, l) # 0
    THEN [rc |-> on_tlv(vis, t, v, l), visited |-> seen1]
    ELSE IF expect # 0 /\ l # expect THEN [rc |-> DATA_ESIZE, visited |-> seen1]
    ELSE decode_walk_visit_first(p, remain, i + 2 + l, vis, seen1)

\* The walk of data_decode over a validated TLV range p, from C index i on;
\* seen: the records the visitor has been invoked on so far.
RECURSIVE decode_walk(_, _, _, _, _)
decode_walk(p, remain, i, vis, seen) ==
    IF ~(i < remain) THEN [rc |-> DATA_OK, visited |-> seen]
    ELSE LET t == p[i + 1]
             l == p[i + 2]
             v == Slice(p, i + 3, i + 2 + l)
             expect == VAR_SIZE_TABLE(t)
         IN
    IF expect # 0 /\ l # expect THEN [rc |-> DATA_ESIZE, visited |-> seen]
    ELSE IF vis = "null" THEN decode_walk(p, remain, i + 2 + l, vis, seen)
    ELSE LET rc == on_tlv(vis, t, v, l)
             seen1 == Append(seen, [t |-> t, v |-> v, l |-> l])
         IN
    IF rc # 0 THEN [rc |-> rc, visited |-> seen1]
    ELSE decode_walk(p, remain, i + 2 + l, vis, seen1)

\* Mutant of data_decode: one pass that validates each record just before it
\* visits it, with no validation of the whole range first.
RECURSIVE decode_single_pass(_, _, _, _, _)
decode_single_pass(p, remain, i, vis, seen) ==
    IF ~(i < remain) THEN [rc |-> DATA_OK, visited |-> seen]
    ELSE IF i + 2 > remain THEN [rc |-> DATA_EFMT, visited |-> seen]
    ELSE IF i + 2 + p[i + 2] > remain THEN [rc |-> DATA_EFMT, visited |-> seen]
    ELSE LET t == p[i + 1]
             l == p[i + 2]
             v == Slice(p, i + 3, i + 2 + l)
             seen1 == IF vis = "null" THEN seen
                      ELSE Append(seen, [t |-> t, v |-> v, l |-> l])
         IN
    IF VAR_SIZE_TABLE(t) # 0 /\ l # VAR_SIZE_TABLE(t)
    THEN [rc |-> DATA_ESIZE, visited |-> seen]
    ELSE IF vis # "null" /\ on_tlv(vis, t, v, l) # 0
    THEN [rc |-> on_tlv(vis, t, v, l), visited |-> seen1]
    ELSE decode_single_pass(p, remain, i + 2 + l, vis, seen1)

data_decode_single_pass(data, data_len, vis) ==
    IF data_len < 2
    THEN [rc |-> DATA_EFMT, visited |-> <<>>, out_msg |-> Unset, out_ver |-> Unset]
    ELSE LET r == decode_single_pass(Slice(data, 3, data_len), data_len - 2, 0, vis, <<>>)
         IN  [rc |-> r.rc, visited |-> r.visited,
              out_msg |-> Out(data[1]), out_ver |-> Out(data[2])]

\* data_decode on non-null data, with non-null out_msg and out_ver.
data_decode(data, data_len, vis) ==
    IF data_len < 2
    THEN [rc |-> DATA_EFMT, visited |-> <<>>, out_msg |-> Unset, out_ver |-> Unset]
    ELSE LET p == Slice(data, 3, data_len)
             remain == data_len - 2
             vr == data_validate_tlvs(p, remain)
             r == decode_walk(p, remain, 0, vis, <<>>)
         IN  IF vr # DATA_OK
             THEN [rc |-> vr, visited |-> <<>>,
                   out_msg |-> Out(data[1]), out_ver |-> Out(data[2])]
             ELSE [rc |-> r.rc, visited |-> r.visited,
                   out_msg |-> Out(data[1]), out_ver |-> Out(data[2])]

(***************************************************************************)
(* A caller fills a DATA buffer with data_begin and data_put_* calls,      *)
(* passing each returned offset on to the next call, and a receiver        *)
(* decodes DATA bytes.                                                     *)
(***************************************************************************)
PutTags == {1, VAR_TEST_VAR_U8, VAR_TEST_VAR_U16, VAR_TEST_VAR_F32}
PutLens == {0, 1, 2, 4, 255}
\* The value bytes a caller passes for length l.
ValueOf(l) == [i \in 1..l |-> 102 + (i % 100)]
PutValues(l) == {NullPtr, Ptr(ValueOf(l))}

DecodeVisitors == {"null", "accepts_all", "stops_on_tag_1"}

NoPut == [fn |-> "none", n |-> 0, w |-> 0, t |-> 0, v |-> NullPtr, l |-> 0,
          before |-> <<>>, ret |-> 0, err |-> Unset, wrote_out |-> {},
          all_ok |-> TRUE, recs |-> <<>>]
NoRx == [src |-> "none", data |-> <<>>]
NoDecode == [called |-> FALSE, vis |-> "null", rc |-> DATA_OK, visited |-> <<>>,
             out_msg |-> Unset, out_ver |-> Unset]

DataBegin ==
    /\ put.fn = "none"
    /\ LET r == data_begin(MSG_PC_TO_MCU, PROTOCOL_DATA_VER, buf, BufCap)
       IN  /\ buf' = r.buf
           /\ w' = r.out_w[1]
           /\ put' = [NoPut EXCEPT !.fn = "begin", !.before = buf, !.ret = r.rc]
    /\ UNCHANGED <<oob, rx, dec, frameVars, streamVars>>

PutTlv ==
    /\ put.fn # "none" /\ put.n < MaxPuts /\ rx.src = "none"
    /\ \E t \in PutTags, l \in PutLens :
       \E v \in PutValues(l) :
         LET r == data_put_tlv(buf, BufCap, w, t, v, l)
         IN  /\ buf' = r.buf
             /\ w' = r.ret
             /\ oob' = oob \cup r.oob
             /\ put' = [fn |-> "tlv", n |-> put.n + 1, w |-> w, t |-> t, v |-> v,
                        l |-> l, before |-> buf, ret |-> r.ret, err |-> Unset,
                        wrote_out |-> r.oob,
                        all_ok |-> put.all_ok /\ r.ret # SIZE_MAX,
                        recs |-> IF r.ret # SIZE_MAX
                                 THEN Append(put.recs, [t |-> t, l |-> l])
                                 ELSE put.recs]
    /\ UNCHANGED <<rx, dec, frameVars, streamVars>>

PutVar ==
    /\ put.fn # "none" /\ put.n < MaxPuts /\ rx.src = "none"
    /\ \E t \in PutTags, l \in PutLens :
       \E v \in PutValues(l) :
         LET r == data_put_var(buf, BufCap, w, t, v, l)
         IN  /\ buf' = r.buf
             /\ w' = r.ret
             /\ oob' = oob \cup r.oob
             /\ put' = [fn |-> "var", n |-> put.n + 1, w |-> w, t |-> t, v |-> v,
                        l |-> l, before |-> buf, ret |-> r.ret, err |-> Out(r.err),
                        wrote_out |-> r.oob,
                        all_ok |-> put.all_ok /\ r.ret # SIZE_MAX,
                        recs |-> IF r.ret # SIZE_MAX
                                 THEN Append(put.recs, [t |-> t, l |-> l])
                                 ELSE put.recs]
    /\ UNCHANGED <<rx, dec, frameVars, streamVars>>

\* The caller hands buf[0 .. w-1] to the receiver (data_end(w) = w bytes).
Encoded ==
    /\ put.fn # "none" /\ rx.src = "none"
    /\ w <= BufCap
    /\ \A i \in 1..w : buf[i] # Indet
    /\ rx' = [src |-> "encoded", data |-> Slice(buf, 1, w)]
    /\ UNCHANGED <<buf, w, put, oob, dec, frameVars, streamVars>>

\* Arbitrary DATA bytes arrive: nothing, one byte, or MSG VER and a TLV range.
TlvBytes == {0, 1, 2, VAR_TEST_VAR_U8, VAR_TEST_VAR_U16}
RawData ==
    {<<>>, <<MSG_PC_TO_MCU>>}
    \cup {<<MSG_PC_TO_MCU, PROTOCOL_DATA_VER>> \o tlv : tlv \in SeqsUpTo(TlvBytes, MaxTlvLen)}

ReceiveData ==
    /\ rx.src = "none"
    /\ \E d \in RawData : rx' = [src |-> "raw", data |-> d]
    /\ UNCHANGED <<buf, w, put, oob, dec, frameVars, streamVars>>

Decode ==
    /\ rx.src # "none" /\ ~dec.called
    /\ \E vis \in DecodeVisitors :
         LET r == data_decode(rx.data, Len(rx.data), vis)
         IN  dec' = [called |-> TRUE, vis |-> vis, rc |-> r.rc, visited |-> r.visited,
                     out_msg |-> r.out_msg, out_ver |-> r.out_ver]
    /\ UNCHANGED <<buf, w, put, oob, rx, frameVars, streamVars>>

FrameIdle == bld = NoBuild /\ wire = NoWire /\ prs = NoParse
StreamIdle == scen = NoScen /\ fs = <<>> /\ fed = 0 /\ frc = NoFeed /\ emitted = <<>>
DataIdle ==
    /\ buf = [i \in 1..BufCap |-> Indet] /\ w = 0 /\ put = NoPut /\ oob = {}
    /\ rx = NoRx /\ dec = NoDecode

InitStream == FrameIdle /\ StreamIdle /\ DataIdle
NextStream == StreamInit \/ StreamFeed
SpecStream == InitStream /\ [][NextStream]_vars

\* Build, transmit, corrupt, parse.
InitFrame == FrameIdle /\ StreamIdle /\ DataIdle
NextFrame == BuildFrame \/ Transmit \/ FlipBit \/ ParseFrame
SpecFrame == InitFrame /\ [][NextFrame]_vars

\* Arbitrary received bytes, parsed.
InitParse == FrameIdle /\ StreamIdle /\ DataIdle
NextParse == Receive \/ ParseFrame
SpecParse == InitParse /\ [][NextParse]_vars

\* Fill a buffer, hand it over, decode it.
InitData == FrameIdle /\ StreamIdle /\ DataIdle
NextData == DataBegin \/ PutTlv \/ PutVar \/ Encoded \/ Decode
SpecData == InitData /\ [][NextData]_vars

\* Arbitrary received DATA bytes, decoded.
InitDecode == FrameIdle /\ StreamIdle /\ DataIdle
NextDecode == ReceiveData \/ Decode
SpecDecode == InitDecode /\ [][NextDecode]_vars

(***************************************************************************)
(* Frame layer claims.                                                     *)
(***************************************************************************)
\* The build supplied a payload: a non-null data pointer, or no data at all.
HasPayload == ~bld.a.data.null \/ bld.a.data_len = 0

\* The parse asked for every output and gave room for the largest payload.
WantsAll ==
    /\ ~prs.p.frame_null /\ ~prs.p.out_data_null /\ prs.p.out_data_cap >= MAX_DATA_LEN
    /\ ~prs.p.out_len_null /\ ~prs.p.out_ver_null /\ ~prs.p.out_seq_null

\* C1: frame round trip.  A build with a payload of 0..252 bytes into a buffer
\* of at least payload_len + 6 bytes succeeds, and parsing exactly the bytes and
\* the frame length it produced succeeds and gives back ver, seq, the payload
\* length and the payload bytes.
C1_RoundTrip ==
    /\ ( /\ bld.called /\ HasPayload /\ ~bld.a.out_buf_null
         /\ bld.a.data_len <= MAX_DATA_LEN
         /\ bld.a.out_buf_size >= bld.a.data_len + 6 )
       => bld.r.rc = PCMCU_OK
    /\ ( /\ bld.called /\ HasPayload
         /\ wire.src = "built" /\ wire.flips = <<>>
         /\ prs.called /\ WantsAll )
       => /\ prs.r.rc = PCMCU_OK
          /\ prs.r.out_ver = Out(bld.a.ver)
          /\ prs.r.out_seq = Out(bld.a.seq)
          /\ prs.r.out_data_len = Out(bld.a.data_len)
          /\ prs.r.out_data = Slice(bld.a.data.bytes, 1, bld.a.data_len)

\* C1 witness: a full-size payload (252 bytes) has made the round trip.
C1_Witness ==
    /\ bld.called /\ bld.a.data_len = MAX_DATA_LEN /\ ~bld.a.data.null
    /\ wire.src = "built" /\ wire.flips = <<>>
    /\ prs.called /\ WantsAll /\ prs.r.rc = PCMCU_OK
    /\ prs.r.out_data = bld.a.data.bytes

\* The flipped bit lies in the length, version or sequence byte or in a payload
\* byte of the transmitted frame (C indexes 1, 2, 3 and 5 .. frame_len - 2).
FlippedProtected ==
    /\ wire.src = "built" /\ wire.flips # <<>>
    /\ wire.flips[1].idx \in {1, 2, 3} \cup (5..(Len(wire.bytes) - 2))

\* C2 as stated: every such flip makes the parse fail with PCMCU_ECHECKSUM
\* (looked at here for the frames built with a payload only, which is enough to
\* refute it).
C2_FlipIsChecksumError ==
    (prs.called /\ ~prs.p.frame_null /\ FlippedProtected /\ HasPayload)
        => prs.r.rc = PCMCU_ECHECKSUM

\* C2 as amended: every such flip makes the parse fail on one of its frame
\* checks; for a frame built with a payload the failure is PCMCU_ECHECKSUM when
\* the bit is in the version, sequence or a payload byte, and PCMCU_ELEN_INVALID
\* or PCMCU_ELEN_MISMATCH when it is in the length byte.
C2_FlipIsRejected ==
    (prs.called /\ ~prs.p.frame_null /\ FlippedProtected)
        => /\ prs.r.rc \in {PCMCU_ELEN_INVALID, PCMCU_ELEN_MISMATCH, PCMCU_ECHECKSUM}
           /\ (HasPayload /\ wire.flips[1].idx # 1) => prs.r.rc = PCMCU_ECHECKSUM
           /\ (HasPayload /\ wire.flips[1].idx = 1)
                 => prs.r.rc \in {PCMCU_ELEN_INVALID, PCMCU_ELEN_MISMATCH}

\* C2 witness: a flipped payload bit has been rejected with PCMCU_ECHECKSUM.
C2_Witness ==
    /\ prs.called /\ ~prs.p.frame_null /\ FlippedProtected /\ HasPayload
    /\ wire.flips[1].idx >= 5
    /\ prs.r.rc = PCMCU_ECHECKSUM

\* The first failing check of the documented order, stated from the bytes.
FirstFailure(f) ==
    LET n == Len(f) IN
    IF n < 6 THEN PCMCU_EFRAME_TOO_SHORT
    ELSE IF ~(f[1] = 170 /\ f[n] = 85) THEN PCMCU_EHEAD_TAIL
    ELSE IF f[2] \in 0..2 THEN PCMCU_ELEN_INVALID
    ELSE IF n - 3 # f[2] THEN PCMCU_ELEN_MISMATCH
    ELSE IF (f[2] + f[3] + f[4] + SumRange(f, 6, n - 1) - f[5]) % 256 # 0
    THEN PCMCU_ECHECKSUM
    ELSE PCMCU_OK

FrameErrors ==
    {PCMCU_EFRAME_TOO_SHORT, PCMCU_EHEAD_TAIL, PCMCU_ELEN_INVALID,
     PCMCU_ELEN_MISMATCH, PCMCU_ECHECKSUM}

\* C7: on a non-null frame the parser reports the first failing check of the
\* order too short, head/tail, length field < 3, length mismatch, checksum (a
\* later error never while an earlier check fails), and on any of these five
\* failures writes none of out_ver, out_seq, out_data_len, out_data.
C7_ValidationOrder ==
    (prs.called /\ ~prs.p.frame_null)
        => /\ FirstFailure(wire.bytes) # PCMCU_OK
                => prs.r.rc = FirstFailure(wire.bytes)
           /\ FirstFailure(wire.bytes) = PCMCU_OK => prs.r.rc \notin FrameErrors
           /\ prs.r.rc \in FrameErrors
                => /\ prs.r.out_ver = Unset /\ prs.r.out_seq = Unset
                   /\ prs.r.out_data_len = Unset /\ prs.r.out_data = <<>>

\* C7 witness: received bytes that pass every check but the last were parsed
\* with all outputs requested, and the checksum error was reported.
C7_Witness ==
    /\ wire.src = "raw" /\ prs.called /\ WantsAll
    /\ prs.r.rc = PCMCU_ECHECKSUM

\* C10: every build that returns OK reports frame length data_len + 6, with
\* byte 0 = 0xAA, byte 1 = data_len + 3 = frame length - 3, last byte 0x55 and
\* byte 4 = (length + ver + seq + sum of the payload bytes in the frame) mod 256.
C10_BuiltFrameConsistent ==
    (bld.called /\ bld.r.rc = PCMCU_OK)
        => LET out == bld.r.out
               n == bld.r.out_frame_len[1]
           IN  /\ n = bld.a.data_len + 6
               /\ out[1] = FRAME_HEAD
               /\ out[2] = bld.a.data_len + 3
               /\ n = out[2] + 3
               /\ out[n] = FRAME_TAIL
               /\ out[5] = (out[2] + bld.a.ver + bld.a.seq + SumRange(out, 6, n - 1)) % 256

(***************************************************************************)
(* Stream layer claims.                                                    *)
(***************************************************************************)
\* The frames handed to the visitor so far, in order.
EmittedFrames == [i \in 1..Len(emitted) |-> emitted[i].frame]

IsPrefix(a, b) == Len(a) <= Len(b) /\ a = SubSeq(b, 1, Len(a))

NoHead(g) == \A i \in 1..Len(g) : g[i] # FRAME_HEAD

\* The run of C3: two valid frames, each after garbage, a visitor that never aborts.
TwoFrameRun == scen.open /\ scen.f2 # <<>> /\ scen.onf = "never_aborts"

\* C3 as stated: whatever the garbage and the chunking, the visitor sees frame_1
\* and then frame_2 and nothing else: at every moment what it has seen is a
\* prefix of <<frame_1, frame_2>>, and all of it once the stream is delivered.
C3_ResyncAnyGarbage ==
    TwoFrameRun
        => /\ IsPrefix(EmittedFrames, <<scen.f1, scen.f2>>)
           /\ fed = Len(Stream) => EmittedFrames = <<scen.f1, scen.f2>>

\* C3 as amended: the same, for garbage that holds no head marker byte (0xAA).
C3_ResyncGarbageWithoutHead ==
    (TwoFrameRun /\ NoHead(scen.g1) /\ NoHead(scen.g2))
        => /\ IsPrefix(EmittedFrames, <<scen.f1, scen.f2>>)
           /\ fed = Len(Stream) => EmittedFrames = <<scen.f1, scen.f2>>

\* C3 witness: a stream with garbage before each frame was delivered in more
\* than one chunk and the visitor got exactly the two frames.
C3_Witness ==
    /\ TwoFrameRun /\ NoHead(scen.g1) /\ NoHead(scen.g2)
    /\ scen.g1 # <<>> /\ scen.g2 # <<>>
    /\ fed = Len(Stream) /\ frc.split
    /\ EmittedFrames = <<scen.f1, scen.f2>>

\* The run of C4: one valid frame and nothing else, a visitor that never aborts.
OneFrameRun ==
    /\ scen.open /\ scen.onf = "never_aborts"
    /\ scen.g1 = <<>> /\ scen.g2 = <<>> /\ scen.f2 = <<>>

\* C4: however the frame's bytes are split into chunks, the visitor is not
\* invoked before the last byte is delivered; the call that delivers it invokes
\* the visitor once with the frame's bytes and leaves the buffer empty, which is
\* also what one call with all the bytes does.
C4_StreamingIdempotence ==
    OneFrameRun
        => /\ fed < Len(scen.f1) => emitted = <<>>
           /\ fed = Len(scen.f1)
                => /\ emitted = <<[frame |-> scen.f1, at |-> Len(scen.f1)]>>
                   /\ fs = <<>>
                   /\ frc.rc = 0
                   /\ LET one == pcmcu_stream_feed(<<>>, scen.f1, scen.onf, 0)
                      IN  one.frames = EmittedFrames /\ one.buf = fs /\ one.rc = frc.rc

\* C4 witness: a frame with a payload was delivered in more than one chunk and
\* the visitor got it once.
C4_Witness ==
    /\ OneFrameRun /\ Len(scen.f1) > 6
    /\ fed = Len(scen.f1) /\ frc.split
    /\ EmittedFrames = <<scen.f1>>

(***************************************************************************)
(* Data layer claims.                                                      *)
(***************************************************************************)
\* The TLV range of the received DATA bytes (what follows msg and ver).
RxTlv == SubSeq(rx.data, 3, Len(rx.data))

\* Walking the records from sequence index pos reaches a header that is cut
\* short or whose declared length exceeds the bytes that remain.
RECURSIVE HasBadRecord(_, _)
HasBadRecord(tlv, pos) ==
    IF pos > Len(tlv) THEN FALSE
    ELSE IF pos = Len(tlv) THEN TRUE
    ELSE IF tlv[pos + 1] > Len(tlv) - (pos + 1) THEN TRUE
    ELSE HasBadRecord(tlv, pos + 2 + tlv[pos + 1])

\* C5: DATA of at least 2 bytes whose TLV range holds, at a record position
\* reached by walking from the start, a cut-short header or a length that
\* overruns the range is rejected with DATA_EFMT and the visitor is never
\* invoked, also when well-formed records come first.
C5_StructuralRejection ==
    (dec.called /\ Len(rx.data) >= 2 /\ HasBadRecord(RxTlv, 1))
        => dec.rc = DATA_EFMT /\ dec.visited = <<>>

\* C5 witness: a well-formed first record, which the visitor would accept, is
\* followed by a malformed one, and the decode was rejected.
C5_Witness ==
    /\ dec.called /\ dec.vis = "accepts_all" /\ Len(rx.data) >= 2
    /\ Len(RxTlv) > 2 /\ RxTlv[2] + 2 < Len(RxTlv)
    /\ VAR_SIZE_TABLE(RxTlv[1]) = 0
    /\ HasBadRecord(RxTlv, 1)
    /\ dec.rc = DATA_EFMT

\* The last call was data_put_var with a tag of fixed width.
FixedVarPut == put.fn = "var" /\ VAR_SIZE_TABLE(put.t) # 0

\* C6: data_put_var on a fixed-width tag with len different from the width
\* fails with *err = DATA_ESIZE and leaves the buffer as it was; with len equal
\* to the width and room in the buffer it succeeds, and when it is the record
\* put right after data_begin, with a value given, data_decode of the result
\* invokes the visitor on exactly that tag, len and value.
C6_WidthEnforcement ==
    /\ (FixedVarPut /\ put.l # VAR_SIZE_TABLE(put.t))
          => put.ret = SIZE_MAX /\ put.err = Out(DATA_ESIZE) /\ buf = put.before
    /\ (FixedVarPut /\ put.l = VAR_SIZE_TABLE(put.t) /\ put.w + 2 + put.l <= BufCap)
          => /\ put.ret # SIZE_MAX /\ put.err = Out(DATA_OK)
             /\ ~put.v.null => put.ret = put.w + 2 + put.l
    /\ ( /\ FixedVarPut /\ put.l = VAR_SIZE_TABLE(put.t) /\ ~put.v.null
         /\ put.n = 1 /\ put.w = 2 /\ put.w + 2 + put.l <= BufCap
         /\ rx.src = "encoded" /\ dec.called /\ dec.vis # "null" )
          => /\ dec.rc = DATA_OK
             /\ dec.visited = <<[t |-> put.t, v |-> put.v.bytes, l |-> put.l]>>

\* C6 witness: a U16 variable put with its 2 value bytes was decoded back.
C6_Witness ==
    /\ FixedVarPut /\ put.t = VAR_TEST_VAR_U16 /\ put.l = 2 /\ ~put.v.null
    /\ put.n = 1 /\ put.w = 2
    /\ rx.src = "encoded" /\ dec.called /\ dec.vis = "accepts_all"
    /\ dec.visited = <<[t |-> put.t, v |-> put.v.bytes, l |-> put.l]>>

\* The records of a well-formed TLV range, from sequence index pos on.
RECURSIVE RecordsFrom(_, _)
RecordsFrom(tlv, pos) ==
    IF pos > Len(tlv) THEN <<>>
    ELSE <<[t |-> tlv[pos], v |-> SubSeq(tlv, pos + 2, pos + 1 + tlv[pos + 1]),
            l |-> tlv[pos + 1]]>>
         \o RecordsFrom(tlv, pos + 2 + tlv[pos + 1])

WidthBad(rec) == VAR_SIZE_TABLE(rec.t) \notin {0, rec.l}
VisitorStops(vis, rec) == on_tlv(vis, rec.t, rec.v, rec.l) # 0

\* C8: on a TLV range that passes structural validation the visitor is invoked
\* on the records in order, once each, up to the first record that has a
\* fixed-width tag with another len (not visited, result DATA_ESIZE) or on which
\* the visitor returns nonzero (visited, that value returned); nothing after it
\* is visited, and without such a record all are visited and the result is OK.
C8_WalkAndEarlyStop ==
    (dec.called /\ dec.vis # "null" /\ Len(rx.data) >= 2 /\ ~HasBadRecord(RxTlv, 1))
        => LET recs == RecordsFrom(RxTlv, 1)
               stops == {k \in 1..Len(recs) :
                            WidthBad(recs[k]) \/ VisitorStops(dec.vis, recs[k])}
           IN  IF stops = {}
               THEN dec.visited = recs /\ dec.rc = DATA_OK
               ELSE LET k == CHOOSE x \in stops : \A y \in stops : x <= y
                    IN  IF WidthBad(recs[k])
                        THEN /\ dec.visited = SubSeq(recs, 1, k - 1)
                             /\ dec.rc = DATA_ESIZE
                        ELSE /\ dec.visited = SubSeq(recs, 1, k)
                             /\ dec.rc = on_tlv(dec.vis, recs[k].t, recs[k].v, recs[k].l)

\* C8 witness: of three records the visitor accepted the first, stopped the
\* decode on the second, and never saw the third.
C8_Witness ==
    /\ dec.called /\ Len(rx.data) >= 2 /\ ~HasBadRecord(RxTlv, 1)
    /\ Len(RecordsFrom(RxTlv, 1)) = 3
    /\ Len(dec.visited) = 2
    /\ dec.rc = VisitorAbort

\* C9: data_put_tlv fails and leaves the buffer unchanged whenever
\* w + 2 + len, as a mathematical sum, exceeds cap, and never writes a byte at
\* an index >= cap.
C9_PutTlvStaysInBounds ==
    put.fn = "tlv"
        => /\ put.w + 2 + put.l > BufCap => put.ret = SIZE_MAX /\ buf = put.before
           /\ put.wrote_out = {}

\* The tag and len of each record of a well-formed TLV range, in order.
HeadersOf(tlv) ==
    LET recs == RecordsFrom(tlv, 1)
    IN  [k \in 1..Len(recs) |-> [t |-> recs[k].t, l |-> recs[k].l]]

\* C11: every successful data_put_tlv returns exactly offset + 2 + len; and
\* after data_begin and any sequence of data_put_tlv / data_put_var calls that
\* all succeeded, with final offset w, data_validate_tlvs on bytes [2, w) is OK
\* and the walk yields one record per append, in append order, with the tag and
\* len given to each append.
C11_AppendsKeepStreamWellFormed ==
    /\ (put.fn = "tlv" /\ put.ret # SIZE_MAX) => put.ret = put.w + 2 + put.l
    /\ (put.fn \in {"tlv", "var"} /\ put.all_ok)
          => /\ w <= BufCap
             /\ data_validate_tlvs(SubSeq(buf, 3, w), w - 2) = DATA_OK
             /\ HeadersOf(SubSeq(buf, 3, w)) = put.recs

=============================================================================
